---- MODULE Spec2Model ----
(***************************************************************************)
(* Model of the two HTTP services of the Supe-Cook backend.                *)
(*                                                                         *)
(*   src/main.py      Recipe Search Service: a read-only catalog (sqlite   *)
(*                    file) with list / name search / ingredient search.   *)
(*   src/app/main.py  Account Service: users and favorite recipes in two   *)
(*                    MongoDB collections, JWT bearer tokens.              *)
(*                                                                         *)
(* Strings whose characters matter (names, queries, ingredients) are       *)
(* sequences of one-character strings, so that str.lower(), str.split()    *)
(* and the substring test `a in b` are computed and not assumed.           *)
(***************************************************************************)
EXTENDS Integers, Sequences, FiniteSets, TLC

VARIABLES
    dbState,    \* catalog file: "ok", "missing" (os.path.exists false), "broken" (OperationalError)
    catalog,    \* rows of the recipes table, in SELECT order
    creq,       \* the catalog request being answered
    cres,       \* the HTTP response the catalog endpoint produced
    users,      \* users_collection: documents in natural (insertion) order
    favorites,  \* favorites_collection: documents in natural order
    reqs,       \* per worker thread: the request it is handling, or its response
    issued,     \* tokens handed out by /token, each with the account it was issued to
    now,        \* datetime.utcnow(), in minutes
    nreq        \* requests accepted so far

cvars == <<dbState, catalog, creq, cres>>

avars == <<users, favorites, reqs, issued, now, nreq>>

vars == <<dbState, catalog, creq, cres, users, favorites, reqs, issued, now, nreq>>

----------------------------------------------------------------------------
(* Bounds of the catalog model *)

MaxCatalog == 2       \* rows in the recipes table
MaxQueryLen == 3      \* characters of a /search query
MaxIngLen == 2        \* characters of one requested ingredient
MaxIngredients == 2   \* requested ingredients in one request

----------------------------------------------------------------------------
(* Character strings *)

RECURSIVE SeqsUpTo(_, _)
SeqsUpTo(S, n) ==
    IF n = 0 THEN {<<>>}
    ELSE LET shorter == SeqsUpTo(S, n - 1)
         IN  shorter \cup {Append(s, c) : s \in {t \in shorter : Len(t) = n - 1}, c \in S}

\* str.lower() on one character
LowerChar(c) ==
    CASE c = "A" -> "a"
      [] c = "B" -> "b"
      [] c = "C" -> "c"
      [] OTHER -> c

\* str.lower()
Lower(s) == [i \in 1..Len(s) |-> LowerChar(s[i])]

IsSpace(c) == c = " "

\* Does t start with s at (1-based) position p ?  (character by character)
RECURSIVE MatchAt(_, _, _, _)
MatchAt(s, t, p, k) ==
    IF k > Len(s) THEN TRUE
    ELSE IF p + k - 1 > Len(t) THEN FALSE
    ELSE IF s[k] # t[p + k - 1] THEN FALSE
    ELSE MatchAt(s, t, p, k + 1)

\* Python `s in t` for strings: scan the start positions left to right
RECURSIVE FindFrom(_, _, _)
FindFrom(s, t, p) ==
    IF p + Len(s) - 1 > Len(t) THEN FALSE
    ELSE IF MatchAt(s, t, p, 1) THEN TRUE
    ELSE FindFrom(s, t, p + 1)

StrIn(s, t) == FindFrom(s, t, 1)

\* str.split() with no argument: maximal runs of non-whitespace characters
RECURSIVE SplitFrom(_, _, _)
SplitFrom(s, i, cur) ==
    IF i > Len(s) THEN (IF cur = <<>> THEN <<>> ELSE <<cur>>)
    ELSE IF IsSpace(s[i])
         THEN (IF cur = <<>> THEN SplitFrom(s, i + 1, <<>>)
               ELSE <<cur>> \o SplitFrom(s, i + 1, <<>>))
         ELSE SplitFrom(s, i + 1, Append(cur, s[i]))

Split(s) == SplitFrom(s, 1, <<>>)

SeqToSet(q) == {q[i] : i \in 1..Len(q)}

----------------------------------------------------------------------------
(* Recipe Search Service, src/main.py *)

\* Rows of the recipes table.  ingredients is the list that eval(recipe[2])
\* yields from the serialized column.
Rows == {
    [id |-> 1, name |-> <<"a", " ", "B">>, ingredients |-> << <<"a", "B">>, <<"c">> >>, instructions |-> "i1"],
    [id |-> 2, name |-> <<"B", "a">>,      ingredients |-> << <<"B">> >>,              instructions |-> "i2"],
    [id |-> 3, name |-> <<"A">>,           ingredients |-> << <<"C", "a">>, <<"b">> >>, instructions |-> "i3"],
    [id |-> 4, name |-> <<"c", "b">>,      ingredients |-> << >>,                      instructions |-> "i4"]
}

Catalogs ==
    {c \in SeqsUpTo(Rows, MaxCatalog) :
        \A i, j \in 1..Len(c) : i # j => c[i].id # c[j].id}

QueryAlphabet == {"A", "b", " "}
Queries == SeqsUpTo(QueryAlphabet, MaxQueryLen)

IngredientAlphabet == {"A", "b"}
IngredientLists == SeqsUpTo(SeqsUpTo(IngredientAlphabet, MaxIngLen), MaxIngredients)

\* A value a catalog function returns: a JSONResponse (isError) or a list of rows
JSONResponse(code, msg) ==
    [isError |-> TRUE, status_code |-> code, message |-> msg, rows |-> <<>>]

RecipeList(rows) ==
    [isError |-> FALSE, status_code |-> 200, message |-> "", rows |-> rows]

\* What an endpoint hands to the framework: the value itself, or {"results": value}
Direct(v) == [wrapped |-> FALSE, value |-> v]
Results(v) == [wrapped |-> TRUE, value |-> v]

\* The HTTP status the client sees: a returned JSONResponse carries its own
\* status; a returned dict is serialized with 200.
HttpStatus(r) == IF r.wrapped THEN 200 ELSE r.value.status_code

get_all_recipes ==
    IF dbState = "missing" THEN JSONResponse(404, "Database file not found.")
    ELSE IF dbState = "broken" THEN JSONResponse(500, "Database error")
    ELSE RecipeList(catalog)

\* (a variant: any() where the code has all())
NameHasAnyWord(recipe, query_words) ==
    \E word \in query_words : StrIn(word, Lower(recipe.name))

\* all(word in recipe["name"].lower() for word in query_words)
NameMatches(recipe, query_words) ==
    \A word \in query_words : StrIn(word, Lower(recipe.name))

\* [recipe for recipe in recipes if all(word in name ...)]
RECURSIVE FilterByName(_, _)
FilterByName(rows, query_words) ==
    IF rows = <<>> THEN <<>>
    ELSE IF NameMatches(Head(rows), query_words)
         THEN <<Head(rows)>> \o FilterByName(Tail(rows), query_words)
         ELSE FilterByName(Tail(rows), query_words)

search_recipes(query) ==
    LET recipes == get_all_recipes
    IN  IF recipes.isError THEN recipes
        ELSE LET query_words == SeqToSet(Split(Lower(query)))
             IN  RecipeList(FilterByName(recipes.rows, query_words))

\* any(ingredient.lower() in item.lower() for item in recipe["ingredients"])
RECURSIVE AnyItemHas(_, _)
AnyItemHas(items, ingredient) ==
    IF items = <<>> THEN FALSE
    ELSE IF StrIn(Lower(ingredient), Lower(Head(items))) THEN TRUE
    ELSE AnyItemHas(Tail(items), ingredient)

\* all(any(...) for ingredient in ingredient_words)
RECURSIVE IngredientsAllAny(_, _)
IngredientsAllAny(recipe, ingredient_words) ==
    IF ingredient_words = <<>> THEN TRUE
    ELSE IF AnyItemHas(recipe.ingredients, Head(ingredient_words))
         THEN IngredientsAllAny(recipe, Tail(ingredient_words))
         ELSE FALSE

\* (a variant: any() across the requested ingredients where the code has all())
RECURSIVE IngredientsAnyAny(_, _)
IngredientsAnyAny(recipe, ingredient_words) ==
    IF ingredient_words = <<>> THEN FALSE
    ELSE IF AnyItemHas(recipe.ingredients, Head(ingredient_words))
         THEN TRUE
         ELSE IngredientsAnyAny(recipe, Tail(ingredient_words))

\* The condition of the list comprehension of search_recipes_by_ingredients
IngredientsMatch(recipe, ingredient_words) == IngredientsAllAny(recipe, ingredient_words)

RECURSIVE FilterByIngredients(_, _)
FilterByIngredients(rows, ingredient_words) ==
    IF rows = <<>> THEN <<>>
    ELSE IF IngredientsMatch(Head(rows), ingredient_words)
         THEN <<Head(rows)>> \o FilterByIngredients(Tail(rows), ingredient_words)
         ELSE FilterByIngredients(Tail(rows), ingredient_words)

search_recipes_by_ingredients(ingredients) ==
    LET recipes == get_all_recipes
    IN  IF recipes.isError THEN recipes
        ELSE LET ingredient_words == [i \in 1..Len(ingredients) |-> Lower(ingredients[i])]
             IN  RecipeList(FilterByIngredients(recipes.rows, ingredient_words))

Request(op, query, ingredients) == [op |-> op, query |-> query, ingredients |-> ingredients]

\* The requests a client can send
Requests ==
    {Request("search", q, <<>>) : q \in Queries}
    \cup {Request("search_by_ingredients", <<>>, l) : l \in IngredientLists}
    \cup {Request("all_recipes", <<>>, <<>>)}

\* No response produced yet
NoResponse == Direct(JSONResponse(0, "pending"))

\* GET /search?query=
search ==
    /\ creq.op = "search"
    /\ cres = NoResponse
    /\ cres' = IF creq.query = <<>>
               THEN Direct(JSONResponse(400, "Query parameter is required."))
               ELSE Results(search_recipes(creq.query))
    /\ UNCHANGED <<dbState, catalog, creq>>
    /\ UNCHANGED avars

\* POST /search_by_ingredients
search_by_ingredients ==
    /\ creq.op = "search_by_ingredients"
    /\ cres = NoResponse
    /\ cres' = IF creq.ingredients = <<>>
               THEN Direct(JSONResponse(400, "Ingredients list is required."))
               ELSE Results(search_recipes_by_ingredients(creq.ingredients))
    /\ UNCHANGED <<dbState, catalog, creq>>
    /\ UNCHANGED avars

\* GET /all_recipes
get_all ==
    /\ creq.op = "all_recipes"
    /\ cres = NoResponse
    /\ cres' = LET recipes == get_all_recipes
               IN  IF recipes.isError THEN Direct(recipes) ELSE Results(recipes)
    /\ UNCHANGED <<dbState, catalog, creq>>
    /\ UNCHANGED avars

----------------------------------------------------------------------------
(* Account Service, src/app/main.py *)

ACCESS_TOKEN_EXPIRE_MINUTES == 30

MaxRequests == 3      \* requests accepted in one behaviour
MaxTime == 32         \* the clock stops here

\* The clock advances in steps of a little more than half the expiry window:
\* a token outlives one step and is expired after two.
TickMinutes == ACCESS_TOKEN_EXPIRE_MINUTES \div 2 + 1

\* Worker threads of the server: sync handlers run concurrently, one request each
Workers == {1, 2}

Emails == {"a@x", "b@x"}
Names == {"n1", "n2"}
Passwords == {"p1", "p2"}
Titles == {"t1", "t2"}
ImageUrls == {"img_ok", "img_bad"}
Unset == "unset"      \* an optional field the request body does not carry
None == "None"        \* Python None

\* requests.get(url) answers 200 with an image Content-Type
check_image_url(image_url) == image_url = "img_ok"

\* passlib bcrypt: the stored hash carries its salt; verification recomputes
\* the digest of the candidate password under that salt.
Bcrypt(password, salt) == <<"bcrypt", salt, password>>

get_password_hash(password, salt) == [salt |-> salt, digest |-> Bcrypt(password, salt)]

verify_password(plain_password, hashed_password) ==
    Bcrypt(plain_password, hashed_password.salt) = hashed_password.digest

\* The salt of a new hash is random: it collides with no hash in existence
SaltsInUse == {users[i].password.salt : i \in 1..Len(users)} \cup {g.salt : g \in issued}

FreshSalt == CHOOSE n \in 0..Cardinality(SaltsInUse) : n \notin SaltsInUse

\* ObjectId of a new document: never one handed out before and still known
IdsInUse == {users[i]._id : i \in 1..Len(users)} \cup {g.uid : g \in issued}

FreshId == CHOOSE n \in 0..Cardinality(IdsInUse) : n \notin IdsInUse

\* Tokens.  sig is "ok" for a token signed with SECRET_KEY.
NoToken == [sub |-> "", exp |-> 0, sig |-> "none"]
Malformed == [sub |-> "", exp |-> 0, sig |-> "malformed"]

create_access_token(sub) ==
    [sub |-> sub, exp |-> now + ACCESS_TOKEN_EXPIRE_MINUTES, sig |-> "ok"]

\* jwt.decode: JWTError on a malformed token, a bad signature, or exp < now
jwt_decode_ok(token) == token.sig = "ok" /\ ~(token.exp < now)

\* Tokens a client can present: the ones it was given, and ones it made up
Forged ==
    {[sub |-> "a@x", exp |-> MaxTime + ACCESS_TOKEN_EXPIRE_MINUTES, sig |-> "bad"], Malformed}

Presentable == {g.tok : g \in issued} \cup Forged

\* collection.find_one({"email": email}): index of the first match, 0 for none
FirstUser(email) ==
    IF \E i \in 1..Len(users) : users[i].email = email
    THEN CHOOSE i \in 1..Len(users) :
            /\ users[i].email = email
            /\ \A j \in 1..(i - 1) : users[j].email # email
    ELSE 0

FirstFavorite(email, name) ==
    IF \E i \in 1..Len(favorites) : favorites[i].email = email /\ favorites[i].name = name
    THEN CHOOSE i \in 1..Len(favorites) :
            /\ favorites[i].email = email /\ favorites[i].name = name
            /\ \A j \in 1..(i - 1) : ~(favorites[j].email = email /\ favorites[j].name = name)
    ELSE 0

RemoveAt(q, i) == SubSeq(q, 1, i - 1) \o SubSeq(q, i + 1, Len(q))

\* serialize_document: "_id" becomes the string field "id"
serialize_document(doc) ==
    [id |-> doc._id, name |-> doc.name, email |-> doc.email,
     password |-> doc.password, profile_image |-> doc.profile_image]

\* (a variant that binds the token to the account and password it was issued for)
get_current_user_bound(token) ==
    IF ~jwt_decode_ok(token) \/ token.sub = "" \/ FirstUser(token.sub) = 0 THEN <<>>
    ELSE IF \E g \in issued :
                /\ g.tok = token
                /\ g.uid = users[FirstUser(token.sub)]._id
                /\ g.salt = users[FirstUser(token.sub)].password.salt
         THEN <<serialize_document(users[FirstUser(token.sub)])>>
         ELSE <<>>

\* (a variant that does not look at the expiry)
get_current_user_noexp(token) ==
    IF token.sig # "ok" \/ token.sub = "" \/ FirstUser(token.sub) = 0 THEN <<>>
    ELSE <<serialize_document(users[FirstUser(token.sub)])>>

\* get_current_user: <<>> for the 401, else the one serialized user document
get_current_user(token) ==
    IF ~jwt_decode_ok(token) THEN <<>>
    ELSE IF token.sub = "" THEN <<>>
    ELSE IF FirstUser(token.sub) = 0 THEN <<>>
    ELSE <<serialize_document(users[FirstUser(token.sub)])>>

\* A worker's record: the request it handles (op, arguments, position pc) and,
\* once pc = "done", the response (status and payload).
Blank ==
    [op |-> "idle", pc |-> "idle", tok |-> NoToken,
     email |-> "", name |-> "", password |-> "", image |-> "", title |-> "",
     cur |-> "", status |-> 0,
     out_users |-> <<>>, out_favs |-> <<>>, out_token |-> NoToken]

\* The response replaces the request: of the request the worker keeps the
\* route, the token, the target email and the authenticated caller.
Done(r, status) ==
    [r EXCEPT !.pc = "done", !.status = status,
              !.name = "", !.password = "", !.image = "", !.title = ""]

Idle(w) == reqs[w].pc \in {"idle", "done"}

\* A new request goes to the first idle worker
Free(w) ==
    /\ Idle(w)
    /\ \A v \in Workers : v < w => ~Idle(v)
    /\ nreq < MaxRequests

At(w, op, pc) == reqs[w].op = op /\ reqs[w].pc = pc

\* Worker w moves to r.  A response is on the wire for one step: the other
\* workers' finished responses have been delivered by now.
Set(w, r) ==
    reqs' = [v \in Workers |->
                IF v = w THEN r
                ELSE IF reqs[v].pc = "done" THEN Blank
                ELSE reqs[v]]

\* POST /users/ : the find_one and what follows it up to the insert
create_user(w, email, name, password) ==
    LET r == [Blank EXCEPT !.op = "register", !.email = email, !.name = name,
                           !.password = password]
    IN  /\ Free(w)
        /\ nreq' = nreq + 1
        /\ Set(w, IF FirstUser(email) # 0 THEN Done(r, 400)
                  ELSE IF password = Unset THEN Done(r, 500)
                  ELSE [r EXCEPT !.pc = "insert"])
        /\ UNCHANGED <<users, favorites, issued, now>>
        /\ UNCHANGED cvars

\* POST /users/ : users_collection.insert_one(user_dict)
create_user_insert(w) ==
    /\ At(w, "register", "insert")
    /\ users' = Append(users,
                  [_id |-> FreshId, name |-> reqs[w].name, email |-> reqs[w].email,
                   password |-> get_password_hash(reqs[w].password, FreshSalt),
                   profile_image |-> None])
    /\ Set(w, Done(reqs[w], 200))
    /\ UNCHANGED <<favorites, issued, now, nreq>>
    /\ UNCHANGED cvars

\* POST /token
LoginUser(username, password) ==
    IF FirstUser(username) = 0 THEN 0
    ELSE IF ~verify_password(password, users[FirstUser(username)].password) THEN 0
    ELSE FirstUser(username)

login_for_access_token(w, username, password) ==
    LET r == [Blank EXCEPT !.op = "login", !.email = username, !.password = password]
        i == LoginUser(username, password)
    IN  /\ Free(w)
        /\ nreq' = nreq + 1
        /\ IF i = 0
           THEN /\ Set(w, Done(r, 401))
                /\ UNCHANGED issued
           ELSE LET token == create_access_token(users[i].email)
                IN  /\ Set(w, [Done(r, 200) EXCEPT !.out_token = token])
                    /\ issued' = issued \cup
                          {[tok |-> token, uid |-> users[i]._id, salt |-> users[i].password.salt]}
        /\ UNCHANGED <<users, favorites, now>>
        /\ UNCHANGED cvars

\* The dependency every bearer route runs first: r answered 401, or r with
\* current_user's email in cur
Authenticate(r) ==
    LET current_user == get_current_user(r.tok)
    IN  IF current_user = <<>> THEN Done(r, 401)
        ELSE [r EXCEPT !.cur = current_user[1].email]

\* PUT /users/ : get_current_user and the checks before the write
update_user(w, tok, email, name, password, image) ==
    LET r == Authenticate([Blank EXCEPT !.op = "update", !.tok = tok, !.email = email,
                             !.name = name, !.password = password, !.image = image])
    IN  /\ Free(w)
        /\ nreq' = nreq + 1
        /\ Set(w, IF r.pc = "done" THEN r
                  ELSE IF r.cur # email THEN Done(r, 403)
                  ELSE IF image # Unset /\ image # None /\ ~check_image_url(image)
                       THEN Done(r, 400)
                  ELSE [r EXCEPT !.pc = "update"])
        /\ UNCHANGED <<users, favorites, issued, now>>
        /\ UNCHANGED cvars

\* (a variant without exclude_unset for the image: an absent image is None)
update_data_all_fields(r, salt) ==
    [keys |-> {"name", "email", "profile_image"}
              \cup (IF r.password # Unset THEN {"password"} ELSE {}),
     name |-> r.name, email |-> r.email,
     password |-> get_password_hash(r.password, salt),
     profile_image |-> IF r.image = Unset THEN None ELSE r.image]

\* user.dict(exclude_unset=True), the password hashed if present: the set of
\* keys and their values
update_data(r, salt) ==
    [keys |-> {"name", "email"}
              \cup (IF r.password # Unset THEN {"password"} ELSE {})
              \cup (IF r.image # Unset THEN {"profile_image"} ELSE {}),
     name |-> r.name, email |-> r.email,
     password |-> get_password_hash(r.password, salt),
     profile_image |-> r.image]

\* {"$set": update_data} applied to one document
ApplySet(doc, upd) ==
    [_id |-> doc._id,
     name |-> IF "name" \in upd.keys THEN upd.name ELSE doc.name,
     email |-> IF "email" \in upd.keys THEN upd.email ELSE doc.email,
     password |-> IF "password" \in upd.keys THEN upd.password ELSE doc.password,
     profile_image |-> IF "profile_image" \in upd.keys THEN upd.profile_image
                       ELSE doc.profile_image]

\* PUT /users/ : users_collection.update_one and the answer
update_user_write(w) ==
    LET r == reqs[w]
        i == FirstUser(r.cur)
    IN  /\ At(w, "update", "update")
        /\ IF i = 0
           THEN /\ Set(w, Done(r, 404))
                /\ UNCHANGED users
           ELSE LET new == ApplySet(users[i], update_data(r, FreshSalt))
                IN  IF new = users[i]
                    THEN /\ Set(w, Done(r, 404))
                         /\ UNCHANGED users
                    ELSE /\ users' = [users EXCEPT ![i] = new]
                         /\ Set(w, Done(r, 200))
        /\ UNCHANGED <<favorites, issued, now, nreq>>
        /\ UNCHANGED cvars

\* GET /users/profile
get_user_profile(w, tok) ==
    LET r == Authenticate([Blank EXCEPT !.op = "profile", !.tok = tok])
    IN  /\ Free(w)
        /\ nreq' = nreq + 1
        /\ Set(w, IF r.pc = "done" THEN r
                  ELSE [Done(r, 200) EXCEPT !.out_users = get_current_user(tok)])
        /\ UNCHANGED <<users, favorites, issued, now>>
        /\ UNCHANGED cvars

\* DELETE /users/delete_account/ : get_current_user
delete_user_account(w, tok) ==
    LET r == Authenticate([Blank EXCEPT !.op = "delete_account", !.tok = tok])
    IN  /\ Free(w)
        /\ nreq' = nreq + 1
        /\ Set(w, IF r.pc = "done" THEN r ELSE [r EXCEPT !.pc = "del_favs"])
        /\ UNCHANGED <<users, favorites, issued, now>>
        /\ UNCHANGED cvars

\* favorites_collection.delete_many({"email": current_user["email"]})
delete_user_account_favorites(w) ==
    LET owned(f) == f.email = reqs[w].cur
        kept(f) == ~owned(f)
    IN  /\ At(w, "delete_account", "del_favs")
        /\ favorites' = SelectSeq(favorites, kept)
        /\ Set(w, [reqs[w] EXCEPT !.pc = "del_user"])
        /\ UNCHANGED <<users, issued, now, nreq>>
        /\ UNCHANGED cvars

\* users_collection.delete_one({"email": current_user["email"]}) and the answer
delete_user_account_user(w) ==
    LET i == FirstUser(reqs[w].cur)
    IN  /\ At(w, "delete_account", "del_user")
        /\ IF i = 0
           THEN /\ Set(w, Done(reqs[w], 404))
                /\ UNCHANGED users
           ELSE /\ users' = RemoveAt(users, i)
                /\ Set(w, Done(reqs[w], 200))
        /\ UNCHANGED <<favorites, issued, now, nreq>>
        /\ UNCHANGED cvars

\* POST /recipes/ : get_current_user
add_favorite_recipe(w, tok, title) ==
    LET r == Authenticate([Blank EXCEPT !.op = "add_favorite", !.tok = tok, !.title = title])
    IN  /\ Free(w)
        /\ nreq' = nreq + 1
        /\ Set(w, IF r.pc = "done" THEN r ELSE [r EXCEPT !.pc = "find"])
        /\ UNCHANGED <<users, favorites, issued, now>>
        /\ UNCHANGED cvars

\* favorites_collection.find_one({"email": ..., "name": ...})
add_favorite_recipe_find(w) ==
    /\ At(w, "add_favorite", "find")
    /\ Set(w, IF FirstFavorite(reqs[w].cur, reqs[w].title) # 0 THEN Done(reqs[w], 400)
              ELSE [reqs[w] EXCEPT !.pc = "insert"])
    /\ UNCHANGED <<users, favorites, issued, now, nreq>>
    /\ UNCHANGED cvars

\* favorites_collection.insert_one(recipe_dict)
add_favorite_recipe_insert(w) ==
    /\ At(w, "add_favorite", "insert")
    /\ favorites' = Append(favorites, [email |-> reqs[w].cur, name |-> reqs[w].title])
    /\ Set(w, Done(reqs[w], 200))
    /\ UNCHANGED <<users, issued, now, nreq>>
    /\ UNCHANGED cvars

\* GET /get_recipes/ : get_current_user
get_user_recipes(w, tok, title) ==
    LET r == Authenticate([Blank EXCEPT !.op = "list_favorites", !.tok = tok, !.title = title])
    IN  /\ Free(w)
        /\ nreq' = nreq + 1
        /\ Set(w, IF r.pc = "done" THEN r ELSE [r EXCEPT !.pc = "find"])
        /\ UNCHANGED <<users, favorites, issued, now>>
        /\ UNCHANGED cvars

\* (a variant that leaves the owner out of the query)
RecipesQueryAnyOwner(email, title, f) ==
    title = None \/ f.name = title

\* The query of get_user_recipes: the caller's email, and the title if given
QueryMatches(email, title, f) ==
    f.email = email /\ (title = None \/ f.name = title)

\* favorites_collection.find(query)
get_user_recipes_find(w) ==
    LET hit(f) == QueryMatches(reqs[w].cur, reqs[w].title, f)
    IN  /\ At(w, "list_favorites", "find")
        /\ Set(w, [Done(reqs[w], 200) EXCEPT !.out_favs = SelectSeq(favorites, hit)])
        /\ UNCHANGED <<users, favorites, issued, now, nreq>>
        /\ UNCHANGED cvars

\* DELETE /delete_recipes/ : get_current_user
delete_favorite_recipe(w, tok, title) ==
    LET r == Authenticate([Blank EXCEPT !.op = "delete_favorite", !.tok = tok, !.title = title])
    IN  /\ Free(w)
        /\ nreq' = nreq + 1
        /\ Set(w, IF r.pc = "done" THEN r ELSE [r EXCEPT !.pc = "find"])
        /\ UNCHANGED <<users, favorites, issued, now>>
        /\ UNCHANGED cvars

\* favorites_collection.find_one({"email": ..., "name": title})
delete_favorite_recipe_find(w) ==
    /\ At(w, "delete_favorite", "find")
    /\ Set(w, IF FirstFavorite(reqs[w].cur, reqs[w].title) = 0 THEN Done(reqs[w], 404)
              ELSE [reqs[w] EXCEPT !.pc = "delete"])
    /\ UNCHANGED <<users, favorites, issued, now, nreq>>
    /\ UNCHANGED cvars

\* favorites_collection.delete_one({"email": ..., "name": title})
delete_favorite_recipe_delete(w) ==
    LET i == FirstFavorite(reqs[w].cur, reqs[w].title)
    IN  /\ At(w, "delete_favorite", "delete")
        /\ favorites' = IF i = 0 THEN favorites ELSE RemoveAt(favorites, i)
        /\ Set(w, Done(reqs[w], 200))
        /\ UNCHANGED <<users, issued, now, nreq>>
        /\ UNCHANGED cvars

\* Time passes.  A handler reads the clock only in its first step (jwt.decode,
\* create_access_token), so a tick during a handler is a tick before or after it.
Tick ==
    /\ \A w \in Workers : Idle(w)
    /\ now + TickMinutes <= MaxTime
    /\ now' = now + TickMinutes
    /\ reqs' = [v \in Workers |-> Blank]
    /\ UNCHANGED <<users, favorites, issued, nreq>>
    /\ UNCHANGED cvars

\* The collections outlive the process, and tokens are stateless: the service
\* starts over an empty database, or over one that earlier requests filled.
\* Here: a@x and b@x registered with password p1, b@x with one favorite, and
\* a@x holding the token of a login at time 0.
SeedUsers ==
    << [_id |-> 0, name |-> "n1", email |-> "a@x",
        password |-> get_password_hash("p1", 0), profile_image |-> None],
       [_id |-> 1, name |-> "n1", email |-> "b@x",
        password |-> get_password_hash("p1", 1), profile_image |-> None] >>

SeedFavorites == << [email |-> "b@x", name |-> "t1"] >>

SeedIssued ==
    {[tok |-> [sub |-> "a@x", exp |-> ACCESS_TOKEN_EXPIRE_MINUTES, sig |-> "ok"],
      uid |-> 0, salt |-> 0]}

AccountInit ==
    /\ \/ users = <<>> /\ favorites = <<>> /\ issued = {}
       \/ users = SeedUsers /\ favorites = SeedFavorites /\ issued = SeedIssued
    /\ reqs = [w \in Workers |-> Blank]
    /\ now = 0
    /\ nreq = 0

\* Request bodies.  A handler that rejects a request at its first check never
\* reads the rest of it, so one body stands for all that are rejected alike:
\* one registration without a password, one update body per made-up token and
\* per foreign email, one title per made-up token.  An update sets the password
\* p2 or none: accounts exist with p1 and with p2, so it changes the password
\* of some and repeats the password of others.
RegisterBodies ==
    {[email |-> e, name |-> n, password |-> p] : e \in Emails, n \in Names, p \in Passwords}
    \cup {[email |-> "a@x", name |-> "n1", password |-> Unset]}

UpdateBodies(tok) ==
    {[email |-> e, name |-> n, password |-> p, image |-> i] :
        e \in (IF tok \in Forged THEN {} ELSE {tok.sub}), n \in Names,
        p \in {"p2", Unset}, i \in ImageUrls \cup {Unset}}
    \cup {[email |-> e, name |-> "n2", password |-> "p2", image |-> Unset] :
            e \in Emails \ {tok.sub}}

TitlesFor(tok) == IF tok \in Forged THEN {"t1"} ELSE Titles

Next ==
    \/ \E w \in Workers : Free(w) /\
          \E b \in RegisterBodies : create_user(w, b.email, b.name, b.password)
    \/ \E w \in Workers : create_user_insert(w)
    \/ \E w \in Workers : Free(w) /\
          \E username \in Emails, password \in Passwords :
            login_for_access_token(w, username, password)
    \/ \E w \in Workers : Free(w) /\
          \E tok \in Presentable : \E b \in UpdateBodies(tok) :
            update_user(w, tok, b.email, b.name, b.password, b.image)
    \/ \E w \in Workers : update_user_write(w)
    \/ \E w \in Workers : Free(w) /\ \E tok \in Presentable : get_user_profile(w, tok)
    \/ \E w \in Workers : Free(w) /\ \E tok \in Presentable : delete_user_account(w, tok)
    \/ \E w \in Workers : delete_user_account_favorites(w)
    \/ \E w \in Workers : delete_user_account_user(w)
    \/ \E w \in Workers : Free(w) /\
          \E tok \in Presentable : \E title \in TitlesFor(tok) :
            add_favorite_recipe(w, tok, title)
    \/ \E w \in Workers : add_favorite_recipe_find(w)
    \/ \E w \in Workers : add_favorite_recipe_insert(w)
    \/ \E w \in Workers : Free(w) /\
          \E tok \in Presentable : \E title \in TitlesFor(tok) \cup {None} :
            get_user_recipes(w, tok, title)
    \/ \E w \in Workers : get_user_recipes_find(w)
    \/ \E w \in Workers : Free(w) /\
          \E tok \in Presentable : \E title \in TitlesFor(tok) :
            delete_favorite_recipe(w, tok, title)
    \/ \E w \in Workers : delete_favorite_recipe_find(w)
    \/ \E w \in Workers : delete_favorite_recipe_delete(w)
    \/ Tick

----------------------------------------------------------------------------
(* Specifications *)

\* The account service, with the catalog service at rest
Init ==
    /\ AccountInit
    /\ dbState = "ok"
    /\ catalog = <<>>
    /\ creq = Request("all_recipes", <<>>, <<>>)
    /\ cres = NoResponse

Spec == Init /\ [][Next]_vars

\* The catalog service, with the account service at rest
CatalogInit ==
    /\ dbState \in {"ok", "missing", "broken"}
    /\ catalog \in Catalogs
    /\ creq \in Requests
    /\ cres = NoResponse
    /\ AccountInit

CatalogNext ==
    \/ search
    \/ search_by_ingredients
    \/ get_all

SpecCatalog == CatalogInit /\ [][CatalogNext]_vars

----------------------------------------------------------------------------
(* Properties of the Recipe Search Service *)

Answered == cres # NoResponse

\* s occurs in t as a substring, ignoring case
ContainsCI(s, t) ==
    \E off \in 0..(Len(t) - Len(s)) :
        \A k \in 1..Len(s) : LowerChar(t[off + k]) = LowerChar(s[k])

\* The whitespace-delimited tokens of q: the maximal runs of non-space characters
Tokens(q) ==
    {SubSeq(q, i, j) : <<i, j>> \in
        {w \in (1..Len(q)) \X (1..Len(q)) :
            /\ w[1] <= w[2]
            /\ \A k \in w[1]..w[2] : q[k] # " "
            /\ (w[1] = 1 \/ q[w[1] - 1] = " ")
            /\ (w[2] = Len(q) \/ q[w[2] + 1] = " ")}}

\* A request that passes the endpoint's own validation
ValidRequest ==
    \/ creq.op = "all_recipes"
    \/ creq.op = "search" /\ creq.query # <<>>
    \/ creq.op = "search_by_ingredients" /\ creq.ingredients # <<>>

\* C7: with the dataset file missing or the query failing, every catalog
\* operation answers with the error payload and its status (404 missing file,
\* 500 query failure), never with a success body carrying a results field.
C7_ErrorSurfaced ==
    (Answered /\ ValidRequest /\ dbState # "ok") =>
        /\ ~cres.wrapped
        /\ cres.value.isError
        /\ HttpStatus(cres) = (IF dbState = "missing" THEN 404 ELSE 500)

RowHasEveryIngredient(r, ings) ==
    \A i \in 1..Len(ings) :
        \E j \in 1..Len(r.ingredients) : ContainsCI(ings[i], r.ingredients[j])

\* C8: search_by_ingredients with a non-empty list returns exactly the rows
\* in which every requested ingredient is a case-insensitive substring of at
\* least one entry of the row's ingredient list, in catalog order; an empty
\* list is answered 400.
C8_IngredientSearch ==
    (Answered /\ creq.op = "search_by_ingredients") =>
        IF creq.ingredients = <<>>
        THEN ~cres.wrapped /\ cres.value.isError /\ HttpStatus(cres) = 400
        ELSE dbState = "ok" =>
                /\ cres.wrapped
                /\ ~cres.value.isError
                /\ LET want(r) == RowHasEveryIngredient(r, creq.ingredients)
                   IN  cres.value.rows = SelectSeq(catalog, want)

C8_Witness ==
    /\ Answered
    /\ creq.op = "search_by_ingredients"
    /\ dbState = "ok"
    /\ Len(creq.ingredients) = 2
    /\ creq.ingredients[1] # creq.ingredients[2]
    /\ Len(creq.ingredients[1]) = 2
    /\ cres.wrapped
    /\ cres.value.rows # <<>>
    /\ Len(cres.value.rows) < Len(catalog)

RowNameHasEveryToken(r, q) ==
    \A tok \in Tokens(q) : ContainsCI(tok, r.name)

\* C9: search_by_name with a non-empty query returns exactly the rows whose
\* name contains every whitespace-delimited token of the query as a
\* case-insensitive substring (a condition on the set of tokens, so neither
\* their order nor their repetition matters); an empty query is answered 400.
C9_NameSearch ==
    (Answered /\ creq.op = "search") =>
        IF creq.query = <<>>
        THEN ~cres.wrapped /\ cres.value.isError /\ HttpStatus(cres) = 400
        ELSE dbState = "ok" =>
                /\ cres.wrapped
                /\ ~cres.value.isError
                /\ LET want(r) == RowNameHasEveryToken(r, creq.query)
                   IN  cres.value.rows = SelectSeq(catalog, want)

C9_Witness ==
    /\ Answered
    /\ creq.op = "search"
    /\ dbState = "ok"
    /\ Cardinality(Tokens(creq.query)) = 2
    /\ cres.wrapped
    /\ cres.value.rows # <<>>
    /\ Len(cres.value.rows) < Len(catalog)

----------------------------------------------------------------------------
(* Properties of the Account Service *)

BearerOps ==
    {"update", "profile", "delete_account", "add_favorite", "list_favorites", "delete_favorite"}

\* In this step worker w accepts a new request and runs its first step
StartedBy(w) == nreq' = nreq + 1 /\ Idle(w) /\ reqs'[w].op # "idle"

\* In this step worker w runs a step of its handler
StepBy(w) == reqs'[w] # reqs[w] /\ reqs'[w].op # "idle"

UsersOf(e) == LET mine(u) == u.email = e IN SelectSeq(users, mine)

FavoritesOf(e) == LET mine(f) == f.email = e IN SelectSeq(favorites, mine)

\* C1: the users collection holds at most one record per email, whatever
\* register, update_profile and delete_account requests ran and however the
\* lookup and the insert of two registrations interleaved.
C1_UniqueEmail ==
    \A i, j \in 1..Len(users) : users[i].email = users[j].email => i = j

\* C2: the favorites collection holds at most one record per (owner email,
\* name), whatever add_favorite and delete_favorite requests ran and however
\* the lookup and the insert of two add_favorite requests interleaved.
C2_UniqueFavorite ==
    \A i, j \in 1..Len(favorites) :
        (favorites[i].email = favorites[j].email /\ favorites[i].name = favorites[j].name)
            => i = j

\* No user record, no favorite and no successful login for email e
Gone(e) ==
    /\ \A i \in 1..Len(users) : users[i].email # e
    /\ \A i \in 1..Len(favorites) : favorites[i].email # e
    /\ \A p \in Passwords : LoginUser(e, p) = 0

DeleteSucceeds(w) ==
    /\ At(w, "delete_account", "del_user")
    /\ reqs'[w].pc = "done"
    /\ reqs'[w].status = 200

RegisterInserts(e) ==
    \E w \in Workers : At(w, "register", "insert") /\ reqs[w].email = e /\ reqs'[w].pc = "done"

\* C3: when delete_account succeeds for a user, no user record and no favorite
\* with that email is left and no login for it succeeds, and that stays so in
\* every later state until the email is registered again, whatever requests of
\* that user were in flight.
C3_DeletedStaysDeleted ==
    [][\A e \in Emails :
          /\ (\E w \in Workers : DeleteSucceeds(w) /\ reqs[w].cur = e) => Gone(e)'
          /\ (Gone(e) /\ ~RegisterInserts(e)) => Gone(e)']_vars

\* The token is malformed or wrongly signed, or its expiry has passed, or no
\* user record has its subject
BadToken(t) ==
    \/ t.sig # "ok"
    \/ now > t.exp
    \/ \A i \in 1..Len(users) : users[i].email # t.sub

\* C4: a user-scoped or favorite-scoped request whose token is malformed,
\* wrongly signed, expired, or names a subject without user record is answered
\* 401 at once, with no user or favorite data, and changes neither collection.
C4_BadTokenUnauthorized ==
    [][\A w \in Workers :
          (StartedBy(w) /\ reqs'[w].op \in BearerOps /\ BadToken(reqs'[w].tok)) =>
              /\ reqs'[w].pc = "done"
              /\ reqs'[w].status = 401
              /\ reqs'[w].out_users = <<>>
              /\ reqs'[w].out_favs = <<>>
              /\ reqs'[w].out_token = NoToken
              /\ users' = users
              /\ favorites' = favorites]_vars

\* an expired, well-signed token of an existing user was refused
C4_Witness ==
    \E w \in Workers :
        /\ reqs[w].op \in BearerOps
        /\ reqs[w].pc = "done"
        /\ reqs[w].status = 401
        /\ reqs[w].tok.sig = "ok"
        /\ reqs[w].tok.exp < now
        /\ FirstUser(reqs[w].tok.sub) # 0

\* C5: every step of a request made with a token of subject A leaves the user
\* records and the favorites of every other email as they were and returns
\* only records of A; update_profile with A's token and a body for another
\* email is answered 403 and changes nothing.
C5_OwnDataOnly ==
    [][\A w \in Workers :
          (StepBy(w) /\ reqs'[w].op \in BearerOps) =>
              LET a == reqs'[w].tok.sub
              IN  /\ \A e \in Emails \ {a} :
                        UsersOf(e)' = UsersOf(e) /\ FavoritesOf(e)' = FavoritesOf(e)
                  /\ \A i \in 1..Len(reqs'[w].out_users) : reqs'[w].out_users[i].email = a
                  /\ \A i \in 1..Len(reqs'[w].out_favs) : reqs'[w].out_favs[i].email = a
                  /\ (reqs'[w].op = "update" /\ StartedBy(w) /\ reqs'[w].cur # ""
                        /\ reqs'[w].email # a) =>
                        /\ reqs'[w].pc = "done"
                        /\ reqs'[w].status = 403
                        /\ users' = users
                        /\ favorites' = favorites]_vars

\* a@x listed its favorites and got some, while b@x has favorites too
C5_Witness ==
    \E w \in Workers :
        /\ reqs[w].op = "list_favorites"
        /\ reqs[w].pc = "done"
        /\ reqs[w].status = 200
        /\ reqs[w].tok.sub = "a@x"
        /\ reqs[w].out_favs # <<>>
        /\ FavoritesOf("b@x") # <<>>

UpdateSucceeds(w) ==
    /\ At(w, "update", "update")
    /\ reqs'[w].pc = "done"
    /\ reqs'[w].status = 200

\* C6: a successful update_profile overwrites exactly the supplied fields of
\* the caller's record and keeps the others; a supplied password is stored so
\* that login succeeds with it and with no other password, an omitted password
\* keeps every login that succeeded succeeding; a successful login returns a
\* token whose subject is the email logged in with.
C6_UpdateFrame ==
    [][\A w \in Workers :
          /\ UpdateSucceeds(w) =>
                LET r == reqs[w]
                    i == FirstUser(r.cur)
                IN  /\ i # 0
                    /\ Len(users') = Len(users)
                    /\ \A j \in 1..Len(users) : j # i => users'[j] = users[j]
                    /\ users'[i]._id = users[i]._id
                    /\ users'[i].email = users[i].email
                    /\ users'[i].name = r.name
                    /\ users'[i].profile_image =
                          (IF r.image = Unset THEN users[i].profile_image ELSE r.image)
                    /\ \A e \in Emails, p \in Passwords :
                          e = r.cur =>
                            IF r.password = Unset
                            THEN /\ users'[i].password = users[i].password
                                 /\ LoginUser(e, p) # 0 => LoginUser(e, p)' # 0
                            ELSE IF p = r.password
                                 THEN LoginUser(e, p)' # 0
                                 ELSE LoginUser(e, p)' = 0
          /\ (StartedBy(w) /\ reqs'[w].op = "login" /\ reqs'[w].status = 200) =>
                /\ reqs'[w].out_token.sub = reqs'[w].email
                /\ reqs'[w].out_token.sig = "ok"
                /\ reqs'[w].out_token.exp = now + ACCESS_TOKEN_EXPIRE_MINUTES]_vars

\* the seeded a@x (name n1, password p1) after an update to name n2 and
\* password p2
C6_Witness ==
    \E w \in Workers :
        /\ reqs[w].op = "update"
        /\ reqs[w].pc = "done"
        /\ reqs[w].status = 200
        /\ SeedIssued \subseteq issued
        /\ FirstUser(reqs[w].cur) # 0
        /\ users[FirstUser(reqs[w].cur)]._id = 0
        /\ users[FirstUser(reqs[w].cur)].name = "n2"
        /\ LoginUser(reqs[w].cur, "p2") # 0
        /\ LoginUser(reqs[w].cur, "p1") = 0

\* C10: an issued token authenticates exactly when it is unexpired and a user
\* record with its subject exists, as that record's user: neither a password
\* change since the login nor the deletion and re-registration of the account
\* it was issued to makes a difference.
C10_TokenAcceptance ==
    \A g \in issued :
        IF now <= g.tok.exp /\ FirstUser(g.tok.sub) # 0
        THEN /\ get_current_user(g.tok) # <<>>
             /\ get_current_user(g.tok)[1].email = g.tok.sub
             /\ get_current_user(g.tok)[1].id = users[FirstUser(g.tok.sub)]._id
        ELSE get_current_user(g.tok) = <<>>

\* the profile route answered a token with a user record that is not the
\* account the token was issued to
C10_Witness ==
    \E w \in Workers :
        /\ reqs[w].op = "profile"
        /\ reqs[w].pc = "done"
        /\ reqs[w].status = 200
        /\ \E g \in issued :
              /\ g.tok = reqs[w].tok
              /\ \A h \in issued : h.tok = g.tok => h.uid # reqs[w].out_users[1].id

====
